---- MODULE Spec2Model ----
(***************************************************************************)
(* Replay sequencing of f1-race-intelligence: the telemetry query, the     *)
(* frame assembler (group_frames_by_driver, build_replay_frame), the       *)
(* sequencer (generate_replay_frames, replay_session_websocket) and the    *)
(* WebSocket endpoint that drives it (replay_race).                        *)
(*                                                                         *)
(* Time is counted in ticks of 1/TicksPerSec second, so that 1.0 / fps is  *)
(* an exact integer number of ticks for every fps the model draws.         *)
(***************************************************************************)
EXTENDS Integers, Sequences, FiniteSets, TLC

\* ---------------------------------------------------------------- bounds
MaxSamples == 3
MaxTime == 3
MaxBack == 2

\* the numerator 1.0 of time_step = 1.0 / fps, in ticks
TicksPerSec == 100

DriverIds == {1, 2}
FpsValues == {-100, 0, 10, 50, 100}

\* Driver.code of the driver row a telemetry frame points to
DriverCode(d) == IF d = 1 THEN "A" ELSE "B"

\* the channel values a telemetry row can carry (x, y in tenths)
Payloads ==
    { [x_norm |-> 1, y_norm |-> 2, speed_kph |-> 3, lap_number |-> 1],
      [x_norm |-> 2, y_norm |-> 1, speed_kph |-> 4, lap_number |-> 2] }

\* a TelemetryFrame row
TelemetryFrame(d, t, p) ==
    [driver_id |-> d, t_rel_sec |-> t, x_norm |-> p.x_norm, y_norm |-> p.y_norm,
     speed_kph |-> p.speed_kph, lap_number |-> p.lap_number]

Rows == { TelemetryFrame(d, t, p) : d \in DriverIds, t \in 0..MaxTime, p \in Payloads }

\* the rows of the example session: A@0.02 (0.1,0.1), A@0.09 (0.2,0.2), B@0.05 (0.5,0.5)
ExampleRow(d, t, xy) ==
    [driver_id |-> d, t_rel_sec |-> t, x_norm |-> xy, y_norm |-> xy,
     speed_kph |-> 0, lap_number |-> 1]

ExampleStore == << ExampleRow(1, 2, 1), ExampleRow(2, 5, 5), ExampleRow(1, 9, 2) >>

\* ---------------------------------------------------------------- helpers
SeqsUpTo(S, n) == UNION { [1..k -> S] : k \in 0..n }

MinOf_origin(S) == 0

MinOf(S) == CHOOSE m \in S : \A x \in S : m <= x

MaxOf_origin(S) == 0

MaxOf(S) == CHOOSE m \in S : \A x \in S : m >= x

Times(frames) == { frames[i].t_rel_sec : i \in 1..Len(frames) }

\* ORDER BY t_rel_sec, driver_id
OrderKeyLeq(a, b) ==
    \/ a.t_rel_sec < b.t_rel_sec
    \/ a.t_rel_sec = b.t_rel_sec /\ a.driver_id <= b.driver_id

IsOrdered(s) == \A i \in 1..Len(s) : \A j \in i..Len(s) : OrderKeyLeq(s[i], s[j])

\* stable sort by (t_rel_sec, driver_id): the order_by of the query
RECURSIVE OrderBy(_)
OrderBy(s) ==
    IF Len(s) <= 1 THEN s
    ELSE LET rest == OrderBy(SubSeq(s, 1, Len(s) - 1))
             x == s[Len(s)]
             n == Cardinality({ i \in 1..Len(rest) : OrderKeyLeq(rest[i], x) })
         IN  SubSeq(rest, 1, n) \o <<x>> \o SubSeq(rest, n + 1, Len(rest))

\* f1_queries.get_telemetry_frames: the rows of the session, restricted to
\* driver_ids when that list is given and non-empty ("if driver_ids:"),
\* in ORDER BY order.  driver_ids = <<>> stands for None and for [].
get_telemetry_frames(rows, driver_ids) ==
    LET Keep(r) == \E i \in 1..Len(driver_ids) : driver_ids[i] = r.driver_id
    IN  OrderBy(IF Len(driver_ids) > 0 THEN SelectSeq(rows, Keep) ELSE rows)

RECURSIVE SortByTime_unstable(_)
SortByTime_unstable(s) ==
    IF Len(s) <= 1 THEN s
    ELSE LET rest == SortByTime_unstable(SubSeq(s, 1, Len(s) - 1))
             x == s[Len(s)]
             n == Cardinality({ i \in 1..Len(rest) : rest[i].t_rel_sec < x.t_rel_sec })
         IN  SubSeq(rest, 1, n) \o <<x>> \o SubSeq(rest, n + 1, Len(rest))

\* list.sort(key=lambda f: f.t_rel_sec): stable, ascending
RECURSIVE SortByTime(_)
SortByTime(s) ==
    IF Len(s) <= 1 THEN s
    ELSE LET rest == SortByTime(SubSeq(s, 1, Len(s) - 1))
             x == s[Len(s)]
             n == Cardinality({ i \in 1..Len(rest) : rest[i].t_rel_sec <= x.t_rel_sec })
         IN  SubSeq(rest, 1, n) \o <<x>> \o SubSeq(rest, n + 1, Len(rest))

TimeStep_magnitude(f) == IF f > 0 THEN TicksPerSec \div f ELSE TicksPerSec \div (0 - f)

\* time_step = 1.0 / fps  (fps # 0)
TimeStep(f) == IF f > 0 THEN TicksPerSec \div f ELSE 0 - (TicksPerSec \div (0 - f))

\* ---------------------------------------------------------------- frame assembler
DictSet_keepfirst(d, k, v) ==
    IF \E i \in 1..Len(d) : d[i].key = k
    THEN d
    ELSE Append(d, [key |-> k, value |-> v])

\* driver_frames[frame.driver_id] = frame on a dict kept as the sequence of
\* its (key, value) items in insertion order: a new key is appended, an
\* existing key keeps its place and takes the new value
DictSet(d, k, v) ==
    IF \E i \in 1..Len(d) : d[i].key = k
    THEN [i \in 1..Len(d) |-> IF d[i].key = k THEN [key |-> k, value |-> v] ELSE d[i]]
    ELSE Append(d, [key |-> k, value |-> v])

group_frames_by_driver_lastorder(frames) ==
    LET IsLast(i) == \A j \in (i + 1)..Len(frames) : frames[j].driver_id # frames[i].driver_id
        lasts == SelectSeq([i \in 1..Len(frames) |-> i], IsLast)
    IN  [n \in 1..Len(lasts) |-> [key |-> frames[lasts[n]].driver_id, value |-> frames[lasts[n]]]]

\* lines 25-28: the dict filled in one pass over the frames
RECURSIVE group_frames_by_driver(_)
group_frames_by_driver(frames) ==
    IF Len(frames) = 0 THEN <<>>
    ELSE LET last == frames[Len(frames)]
         IN  DictSet(group_frames_by_driver(SubSeq(frames, 1, Len(frames) - 1)),
                     last.driver_id, last)

CarPositionSchema(frame) ==
    [driver_code |-> DriverCode(frame.driver_id), x |-> frame.x_norm, y |-> frame.y_norm,
     speed_kph |-> frame.speed_kph, lap |-> frame.lap_number]

build_replay_frame_stamped(current_time_, frames) ==
    LET driver_frames == group_frames_by_driver(frames)
    IN  [t |-> MaxOf(Times(frames) \cup {0}),
         cars |-> [i \in 1..Len(driver_frames) |-> CarPositionSchema(driver_frames[i].value)]]

build_replay_frame(current_time_, frames) ==
    LET driver_frames == group_frames_by_driver(frames)
    IN  [t |-> current_time_,
         cars |-> [i \in 1..Len(driver_frames) |-> CarPositionSchema(driver_frames[i].value)]]

\* ---------------------------------------------------------------- window scan
\* line 112: the scan stops at the first frame past the window end
PastWindow(t, window_end) == t > window_end

InWindow_strict(t, current_time_) == t > current_time_

\* line 114: a scanned frame is collected when it is not before the window
InWindow(t, current_time_) == t >= current_time_

ScanWindow_rewind(frames, idx, current_time_, window_end, acc) ==
    LET Hit(i) == /\ InWindow(frames[i].t_rel_sec, current_time_)
                  /\ ~PastWindow(frames[i].t_rel_sec, window_end)
    IN  [frame_index |-> 0, collected |-> SelectSeq([i \in 1..Len(frames) |-> i], Hit)]

\* the inner while of generate_replay_frames, from frame_index idx (0-based);
\* acc is the sequence of the positions (1-based) appended to window_frames
RECURSIVE ScanWindow(_, _, _, _, _)
ScanWindow(frames, idx, current_time_, window_end, acc) ==
    IF idx < Len(frames)
    THEN LET frame == frames[idx + 1]
         IN  IF PastWindow(frame.t_rel_sec, window_end)
             THEN [frame_index |-> idx, collected |-> acc]
             ELSE ScanWindow(frames, idx + 1, current_time_, window_end,
                             IF InWindow(frame.t_rel_sec, current_time_)
                             THEN Append(acc, idx + 1) ELSE acc)
    ELSE [frame_index |-> idx, collected |-> acc]

NextTime_drift(current_time_, time_step_) == current_time_ + time_step_ + 1

\* line 124
NextTime(current_time_, time_step_) == current_time_ + time_step_

\* ---------------------------------------------------------------- state
VARIABLES
    store,              \* telemetry_frames rows of the race session, in table order
    fps,                \* settings.replay_fps
    connected,          \* the client still holds the WebSocket open
    pc,                 \* position of the replay_race coroutine
    exc,                \* the exception raised last ("none" when none was)
    telemetry_frames,   \* the loaded (and sorted) list of generate_replay_frames
    min_time, max_time, time_step, current_time, frame_index,
    window,             \* positions in telemetry_frames collected by this iteration
    wire,               \* the messages send_json has delivered, in order
    store_queries,      \* calls of get_telemetry_frames
    windows,            \* per finished scan: [t, collected positions]
    sleeps,             \* asyncio.sleep calls
    send_attempts,      \* calls of send_callback for a frame
    completion_attempts,\* calls of send_json({"status": "complete"})
    close_attempts,     \* calls of websocket.close()
    loop_exited,        \* the generator ran to its end
    sink_failed,        \* a frame delivery raised: [at |-> windows scanned, frames |-> frames on the wire]
    propagated,         \* replay_session_websocket re-raised to replay_race
    in_flight,          \* frames handed to send_callback whose call has not returned
    pb,                 \* concurrent calls of replay_session_websocket, each with its own locals
    db,                 \* requests served through the get_db dependency
    ing,                \* a run of ingest_race_data
    asm_time, asm_frames, asm_results   \* direct calls of build_replay_frame

seqVars == <<telemetry_frames, min_time, max_time, time_step, current_time, frame_index, window>>
histVars == <<store_queries, windows, sleeps, send_attempts, completion_attempts,
              close_attempts, loop_exited, sink_failed, propagated>>
asmVars == <<asm_time, asm_frames, asm_results>>
vars == <<store, fps, connected, pc, exc, wire, seqVars, histVars, asmVars, pb, db, ing, in_flight>>

NoFailure == [at |-> -1, frames |-> -1]

\* ordered row lists of at most MaxSamples rows, and the example session
Stores == { s \in SeqsUpTo(Rows, MaxSamples) : IsOrdered(s) } \cup {ExampleStore}

WindowFrames_carryover == [i \in 1..frame_index |-> telemetry_frames[i]]

\* line 108, 115: window_frames, a new list in every iteration
WindowFrames == [i \in 1..Len(window) |-> telemetry_frames[window[i]]]

IsFrame(m) == "cars" \in DOMAIN m
IsComplete(m) == "status" \in DOMAIN m
IsError(m) == "error" \in DOMAIN m
FramesOn(w) == SelectSeq(w, IsFrame)

\* get_db before the first request: no session, nothing persisted, no request served
NewDb ==
    [pc |-> "idle", pending |-> 0, persisted |-> 0, handler |-> "none", exc |-> "none",
     ops |-> <<>>, served |-> <<>>]

\* ingest_race_data before its call
NewIngestion ==
    [pc |-> "load", step |-> 0, pending |-> {}, persisted |-> {}, ran |-> <<>>,
     wrote |-> {}, exc |-> "none", failed_at |-> 0, ops |-> <<>>]

Playbacks == {1, 2}

\* line 65: driver_ids = None, as replay_session_websocket calls it (line 151)
NoFilter == [none |-> TRUE, ids |-> <<>>]

\* the locals of a call of generate_replay_frames that has not started
NewPlayback ==
    [pc |-> "idle", driver_ids |-> NoFilter, telemetry_frames |-> <<>>,
     min_time |-> 0, max_time |-> 0, time_step |-> 0, current_time |-> 0,
     frame_index |-> 0, out |-> <<>>, runs |-> 0]

InitSeq ==
    /\ telemetry_frames = <<>>
    /\ min_time = 0 /\ max_time = 0 /\ time_step = 0 /\ current_time = 0
    /\ frame_index = 0
    /\ window = <<>>

InitHist ==
    /\ store_queries = 0 /\ windows = <<>> /\ sleeps = 0 /\ send_attempts = 0
    /\ completion_attempts = 0 /\ close_attempts = 0
    /\ loop_exited = FALSE /\ sink_failed = NoFailure /\ propagated = FALSE
    /\ in_flight = <<>>

Init ==
    /\ store \in Stores
    /\ fps \in FpsValues
    /\ connected = TRUE
    /\ pc = "accept"
    /\ exc = "none"
    /\ wire = <<>>
    /\ InitSeq /\ InitHist
    /\ db = NewDb /\ ing = NewIngestion
    /\ pb = [p \in Playbacks |-> NewPlayback]
    /\ asm_time = 0 /\ asm_frames = <<>> /\ asm_results = <<>>

\* ---------------------------------------------------------------- replay_race
\* await websocket.accept()
Accept ==
    /\ pc = "accept"
    /\ pc' = "lookup"
    /\ UNCHANGED <<store, fps, connected, exc, wire, seqVars, histVars, asmVars, pb, db, ing, in_flight>>

\* f1_queries.get_race_main_session: the RACE session, or SessionNotFoundException
GetRaceMainSession ==
    /\ pc = "lookup"
    /\ \/ pc' = "load" /\ exc' = exc
       \/ pc' = "router_except" /\ exc' = "SessionNotFoundException"
    /\ UNCHANGED <<store, fps, connected, wire, seqVars, histVars, asmVars, pb, db, ing, in_flight>>

\* line 84: if not telemetry_frames
NoFrames(frames) == Len(frames) = 0

LoadOutcome_noguard(loaded, f) ==
    IF NoFrames(loaded) THEN "ValueError"
    ELSE IF f = 0 THEN "ZeroDivisionError"
    ELSE "stream"

\* lines 84-97 after the read: return on an empty result, else min/max and
\* 1.0 / fps, which raises for fps = 0
LoadOutcome(loaded, f) ==
    IF NoFrames(loaded) THEN "return"
    ELSE IF f = 0 THEN "ZeroDivisionError"
    ELSE "stream"

ReadFailure_retry ==
    /\ exc' = exc /\ pc' = "load"
    /\ UNCHANGED <<seqVars, loop_exited>>

\* line 82: the read raises; nothing catches it inside the generator
ReadFailure ==
    /\ exc' = "StoreError" /\ pc' = "replay_except"
    /\ UNCHANGED <<seqVars, loop_exited>>

\* generate_replay_frames up to its loop: the bulk read, the empty check,
\* min/max, time_step = 1.0 / fps, the sort
LoadTelemetry ==
    /\ pc = "load"
    /\ store_queries' = store_queries + 1
    /\ \/ ReadFailure
       \/ LET loaded == get_telemetry_frames(store, <<>>)
              outcome == LoadOutcome(loaded, fps)
          IN  CASE outcome = "return" ->
                      /\ pc' = "replay_return" /\ exc' = exc
                      /\ loop_exited' = TRUE
                      /\ UNCHANGED seqVars
                [] outcome = "stream" ->
                      /\ min_time' = MinOf(Times(loaded))
                      /\ max_time' = MaxOf(Times(loaded))
                      /\ time_step' = TimeStep(fps)
                      /\ current_time' = MinOf(Times(loaded))
                      /\ frame_index' = 0
                      /\ telemetry_frames' = SortByTime(loaded)
                      /\ window' = <<>>
                      /\ pc' = "loop" /\ exc' = exc
                      /\ loop_exited' = loop_exited
                [] OTHER ->
                      /\ exc' = outcome /\ pc' = "replay_except"
                      /\ telemetry_frames' = loaded
                      /\ UNCHANGED <<min_time, max_time, time_step, current_time,
                                     frame_index, window, loop_exited>>
    /\ UNCHANGED <<store, fps, connected, wire, windows, sleeps, send_attempts,
                   completion_attempts, close_attempts, sink_failed, propagated, asmVars, pb, db, ing, in_flight>>

LoopCondition_forever(current_time_, max_time_) == TRUE

\* line 104: while current_time <= max_time
LoopCondition(current_time_, max_time_) == current_time_ <= max_time_

\* one pass of lines 106-116: the window scan from frame_index
CollectWindow ==
    /\ pc = "loop"
    /\ LoopCondition(current_time, max_time)
    /\ current_time >= min_time - MaxBack
    /\ LET scan == ScanWindow(telemetry_frames, frame_index, current_time,
                              current_time + time_step, <<>>)
       IN  /\ frame_index' = scan.frame_index
           /\ window' = scan.collected
           /\ windows' = Append(windows, [t |-> current_time, from |-> frame_index,
                                          collected |-> scan.collected])
    /\ pc' = "yield"
    /\ UNCHANGED <<store, fps, connected, exc, wire, telemetry_frames, min_time, max_time,
                   time_step, current_time, store_queries, sleeps, send_attempts,
                   completion_attempts, close_attempts, loop_exited, sink_failed,
                   propagated, asmVars, pb, db, ing, in_flight>>

\* the loop condition fails: the generator ends, the async for ends
LoopExit ==
    /\ pc = "loop"
    /\ ~LoopCondition(current_time, max_time)
    /\ loop_exited' = TRUE
    /\ pc' = "replay_return"
    /\ UNCHANGED <<store, fps, connected, exc, wire, seqVars, store_queries, windows, sleeps,
                   send_attempts, completion_attempts, close_attempts, sink_failed,
                   propagated, asmVars, pb, db, ing, in_flight>>

SkipEmptyWindow_emit ==
    /\ pc = "yield"
    /\ window = <<>>
    /\ wire' = IF connected THEN Append(wire, build_replay_frame(current_time, WindowFrames))
                ELSE wire
    /\ pc' = "advance"
    /\ UNCHANGED <<store, fps, connected, exc, seqVars, histVars, asmVars, pb, db, ing, in_flight>>

\* line 119 with an empty window: nothing is yielded
SkipEmptyWindow ==
    /\ pc = "yield"
    /\ window = <<>>
    /\ pc' = "advance"
    /\ UNCHANGED <<store, fps, connected, exc, wire, seqVars, histVars, asmVars, pb, db, ing, in_flight>>

YieldFrame_nowait ==
    /\ pc = "yield"
    /\ window # <<>>
    /\ in_flight' = Append(in_flight, build_replay_frame(current_time, WindowFrames))
    /\ send_attempts' = send_attempts + 1
    /\ pc' = "advance"
    /\ UNCHANGED <<store, fps, connected, exc, wire, seqVars, store_queries, windows, sleeps,
                   completion_attempts, close_attempts, loop_exited, sink_failed,
                   propagated, asmVars, pb, db, ing>>

\* lines 119-121 and 151-152: the frame is built and yielded, and
\* replay_session_websocket awaits send_callback(frame.model_dump())
YieldFrame ==
    /\ pc = "yield"
    /\ window # <<>>
    /\ in_flight' = Append(in_flight, build_replay_frame(current_time, WindowFrames))
    /\ send_attempts' = send_attempts + 1
    /\ pc' = "sending"
    /\ UNCHANGED <<store, fps, connected, exc, wire, seqVars, store_queries, windows, sleeps,
                   completion_attempts, close_attempts, loop_exited, sink_failed,
                   propagated, asmVars, pb, db, ing>>

DeliverFrame_continue ==
    /\ pc = "sending"
    /\ in_flight' = Tail(in_flight)
    /\ \/ /\ connected
          /\ wire' = Append(wire, Head(in_flight))
          /\ pc' = "advance"
          /\ UNCHANGED <<exc, sink_failed>>
       \/ /\ exc' = IF connected THEN "SendError" ELSE "WebSocketDisconnect"
          /\ sink_failed' = [at |-> Len(windows), frames |-> Len(FramesOn(wire))]
          /\ pc' = "advance"
          /\ wire' = wire
    /\ UNCHANGED <<store, fps, connected, seqVars, store_queries, windows, sleeps,
                   send_attempts, completion_attempts, close_attempts, loop_exited,
                   propagated, asmVars, pb, db, ing>>

\* line 152: the awaited send_callback returns (the frame is delivered and
\* the generator is resumed) or raises
DeliverFrame ==
    /\ pc = "sending"
    /\ in_flight' = Tail(in_flight)
    /\ \/ /\ connected
          /\ wire' = Append(wire, Head(in_flight))
          /\ pc' = "advance"
          /\ UNCHANGED <<exc, sink_failed>>
       \/ /\ exc' = IF connected THEN "SendError" ELSE "WebSocketDisconnect"
          /\ sink_failed' = [at |-> Len(windows), frames |-> Len(FramesOn(wire))]
          /\ pc' = "replay_except"
          /\ wire' = wire
    /\ UNCHANGED <<store, fps, connected, seqVars, store_queries, windows, sleeps,
                   send_attempts, completion_attempts, close_attempts, loop_exited,
                   propagated, asmVars, pb, db, ing>>

AdvanceAndSleep_frames_only ==
    /\ pc = "advance"
    /\ current_time' = NextTime(current_time, time_step)
    /\ sleeps' = IF window = <<>> THEN sleeps ELSE sleeps + 1
    /\ pc' = "loop"
    /\ UNCHANGED <<store, fps, connected, exc, wire, telemetry_frames, min_time, max_time,
                   time_step, frame_index, window, store_queries, windows, send_attempts,
                   completion_attempts, close_attempts, loop_exited, sink_failed,
                   propagated, asmVars, pb, db, ing, in_flight>>

\* lines 124-125: current_time += time_step; await asyncio.sleep(time_step)
AdvanceAndSleep ==
    /\ pc = "advance"
    /\ current_time' = NextTime(current_time, time_step)
    /\ sleeps' = sleeps + 1
    /\ pc' = "loop"
    /\ UNCHANGED <<store, fps, connected, exc, wire, telemetry_frames, min_time, max_time,
                   time_step, frame_index, window, store_queries, windows, send_attempts,
                   completion_attempts, close_attempts, loop_exited, sink_failed,
                   propagated, asmVars, pb, db, ing, in_flight>>

ReplayExcept_swallow ==
    /\ pc = "replay_except"
    /\ pc' = "replay_return"
    /\ UNCHANGED <<store, fps, connected, exc, wire, seqVars, histVars, asmVars, pb, db, ing, in_flight>>

\* lines 153-155: except Exception: log, raise
ReplayExcept ==
    /\ pc = "replay_except"
    /\ propagated' = TRUE
    /\ pc' = "router_except"
    /\ UNCHANGED <<store, fps, connected, exc, wire, seqVars, store_queries, windows, sleeps,
                   send_attempts, completion_attempts, close_attempts, loop_exited,
                   sink_failed, asmVars, pb, db, ing, in_flight>>

\* replay_session_websocket returned: await websocket.send_json({"status": "complete"})
SendCompletion ==
    /\ pc = "replay_return"
    /\ completion_attempts' = completion_attempts + 1
    /\ \/ /\ connected
          /\ wire' = Append(wire, [status |-> "complete"])
          /\ pc' = "close"
          /\ exc' = exc
       \/ /\ exc' = IF connected THEN "SendError" ELSE "WebSocketDisconnect"
          /\ pc' = "router_except"
          /\ wire' = wire
    /\ UNCHANGED <<store, fps, connected, seqVars, store_queries, windows, sleeps,
                   send_attempts, close_attempts, loop_exited, sink_failed, propagated,
                   asmVars, pb, db, ing, in_flight>>

\* except WebSocketDisconnect: log only
HandleDisconnect ==
    /\ pc = "router_except"
    /\ exc = "WebSocketDisconnect"
    /\ pc' = "close"
    /\ UNCHANGED <<store, fps, connected, exc, wire, seqVars, histVars, asmVars, pb, db, ing, in_flight>>

HandleError_and_close ==
    /\ pc = "router_except"
    /\ exc # "WebSocketDisconnect"
    /\ \/ connected /\ wire' = Append(wire, [error |-> exc])
       \/ wire' = wire
    /\ close_attempts' = close_attempts + 1
    /\ pc' = "close"
    /\ UNCHANGED <<store, fps, connected, exc, seqVars, store_queries, windows, sleeps,
                   send_attempts, completion_attempts, loop_exited, sink_failed,
                   propagated, asmVars, pb, db, ing, in_flight>>

\* except Exception: send {"error": str(e)}; a failure of that send is swallowed
HandleError ==
    /\ pc = "router_except"
    /\ exc # "WebSocketDisconnect"
    /\ \/ connected /\ wire' = Append(wire, [error |-> exc])
       \/ wire' = wire
    /\ pc' = "close"
    /\ UNCHANGED <<store, fps, connected, exc, seqVars, histVars, asmVars, pb, db, ing, in_flight>>

Close_with_completion ==
    /\ pc = "close"
    /\ close_attempts' = close_attempts + 1
    /\ wire' = IF connected THEN Append(wire, [status |-> "complete"]) ELSE wire
    /\ pc' = "done"
    /\ UNCHANGED <<store, fps, connected, exc, seqVars, store_queries, windows, sleeps,
                   send_attempts, completion_attempts, loop_exited, sink_failed,
                   propagated, asmVars, pb, db, ing, in_flight>>

\* finally: await websocket.close(); a failure of the close is swallowed
Close ==
    /\ pc = "close"
    /\ close_attempts' = close_attempts + 1
    /\ pc' = "done"
    /\ UNCHANGED <<store, fps, connected, exc, wire, seqVars, store_queries, windows, sleeps,
                   send_attempts, completion_attempts, loop_exited, sink_failed,
                   propagated, asmVars, pb, db, ing, in_flight>>

\* the client goes away; the endpoint never reads, so only a later send sees it
ClientDisconnect ==
    /\ connected
    /\ pc \notin {"done", "idle"}
    /\ connected' = FALSE
    /\ UNCHANGED <<store, fps, pc, exc, wire, seqVars, histVars, asmVars, pb, db, ing, in_flight>>

Next ==
    \/ Accept
    \/ GetRaceMainSession
    \/ LoadTelemetry
    \/ CollectWindow
    \/ LoopExit
    \/ SkipEmptyWindow
    \/ YieldFrame
    \/ DeliverFrame
    \/ AdvanceAndSleep
    \/ ReplayExcept
    \/ SendCompletion
    \/ HandleDisconnect
    \/ HandleError
    \/ Close
    \/ ClientDisconnect

Spec == Init /\ [][Next]_vars

TypeOK ==
    /\ pc \in {"accept", "lookup", "load", "loop", "yield", "sending", "advance", "replay_except",
               "replay_return", "router_except", "close", "done", "idle"}
    /\ frame_index \in 0..Len(telemetry_frames)

\* the steps of the coroutine itself; the event loop resumes it whenever the
\* awaited call (accept, send, sleep, close) has returned
ProgramNext ==
    \/ Accept
    \/ GetRaceMainSession
    \/ LoadTelemetry
    \/ CollectWindow
    \/ LoopExit
    \/ SkipEmptyWindow
    \/ YieldFrame
    \/ DeliverFrame
    \/ AdvanceAndSleep
    \/ ReplayExcept
    \/ SendCompletion
    \/ HandleDisconnect
    \/ HandleError
    \/ Close

\* the sessions of the liveness check
MaxLiveSamples == 2

InitLive ==
    /\ store \in { s \in SeqsUpTo(Rows, MaxLiveSamples) : IsOrdered(s) }
    /\ fps \in FpsValues
    /\ connected = TRUE
    /\ pc = "accept"
    /\ exc = "none"
    /\ wire = <<>>
    /\ InitSeq /\ InitHist
    /\ db = NewDb /\ ing = NewIngestion
    /\ pb = [p \in Playbacks |-> NewPlayback]
    /\ asm_time = 0 /\ asm_frames = <<>> /\ asm_results = <<>>

\* every awaited call returns: the coroutine is always resumed
SpecLive == InitLive /\ [][Next]_vars /\ WF_vars(ProgramNext)

\* ---------------------------------------------------------------- assembler alone
\* build_replay_frame called directly, on any sample sequence (in any order)
MaxCalls == 2

InitAsm ==
    /\ asm_frames \in SeqsUpTo(Rows, MaxSamples)
    /\ asm_time \in 0..MaxTime
    /\ asm_results = <<>>
    /\ store = <<>>
    /\ fps = 10
    /\ connected = TRUE
    /\ pc = "idle"
    /\ exc = "none"
    /\ wire = <<>>
    /\ InitSeq /\ InitHist
    /\ db = NewDb /\ ing = NewIngestion
    /\ pb = [p \in Playbacks |-> NewPlayback]

Assemble ==
    /\ pc = "idle"
    /\ Len(asm_results) < MaxCalls
    /\ asm_results' = Append(asm_results, build_replay_frame(asm_time, asm_frames))
    /\ UNCHANGED <<store, fps, connected, pc, exc, wire, seqVars, histVars, asm_time, asm_frames, pb, db, ing, in_flight>>

NextAsm == Assemble

SpecAsm == InitAsm /\ [][NextAsm]_vars

\* ---------------------------------------------------------------- two playbacks
\* two calls of replay_session_websocket on one event loop, over the same
\* session; a step runs from one await to the next, and the loop picks the
\* playback that runs next
MaxPairSamples == 2
MaxRequests == 2

\* the sessions played twice: one reading per driver and time
PairRows == { r \in Rows : r.lap_number = 1 }

InitPair ==
    /\ store \in { s \in SeqsUpTo(PairRows, MaxPairSamples) : IsOrdered(s) }
    /\ fps \in FpsValues
    /\ connected = TRUE
    /\ pc = "idle"
    /\ exc = "none"
    /\ wire = <<>>
    /\ InitSeq /\ InitHist
    /\ db = NewDb /\ ing = NewIngestion
    /\ pb = [p \in Playbacks |-> NewPlayback]
    /\ asm_time = 0 /\ asm_frames = <<>> /\ asm_results = <<>>

PairFixed ==
    UNCHANGED <<store, fps, connected, pc, exc, wire, seqVars, histVars, asmVars, db, ing,
                in_flight>>

InitialCursor_resume(previous) == previous

\* line 99: frame_index = 0, a local of the call
InitialCursor(previous) == 0

\* lines 82-102 of one call: its own read, its own list, its own cursor
StartPlayback(p) ==
    /\ pb[p].pc = "idle"
    /\ \/ pb' = [pb EXCEPT ![p].pc = "failed"]
       \/ LET loaded == get_telemetry_frames(store, pb[p].driver_ids.ids)
              outcome == LoadOutcome(loaded, fps)
          IN  CASE outcome = "return" ->
                      pb' = [pb EXCEPT ![p].pc = "finished"]
                [] outcome = "stream" ->
                      pb' = [pb EXCEPT ![p].pc = "loop",
                                       ![p].telemetry_frames = SortByTime(loaded),
                                       ![p].min_time = MinOf(Times(loaded)),
                                       ![p].max_time = MaxOf(Times(loaded)),
                                       ![p].time_step = TimeStep(fps),
                                       ![p].current_time = MinOf(Times(loaded)),
                                       ![p].frame_index = InitialCursor(@)]
                [] OTHER ->
                      pb' = [pb EXCEPT ![p].pc = "failed"]
    /\ PairFixed

\* lines 104-125 and 151-152 of one call: one pass of the loop; the send
\* returns, or it raises (or the task is cancelled at the await)
ScanAndSend(p) ==
    /\ pb[p].pc = "loop"
    /\ LoopCondition(pb[p].current_time, pb[p].max_time)
    /\ pb[p].current_time >= pb[p].min_time - MaxBack
    /\ LET me == pb[p]
           scan == ScanWindow(me.telemetry_frames, me.frame_index, me.current_time,
                              me.current_time + me.time_step, <<>>)
           window_frames == [i \in 1..Len(scan.collected) |->
                                me.telemetry_frames[scan.collected[i]]]
           advanced == [me EXCEPT !.frame_index = scan.frame_index,
                                  !.current_time = NextTime(me.current_time, me.time_step)]
       IN  IF window_frames = <<>>
           THEN pb' = [pb EXCEPT ![p] = advanced]
           ELSE \/ pb' = [pb EXCEPT ![p] =
                            [advanced EXCEPT !.out = Append(@, build_replay_frame(
                                                        me.current_time, window_frames))]]
                \/ pb' = [pb EXCEPT ![p] =
                            [me EXCEPT !.frame_index = scan.frame_index,
                                       !.pc = "failed"]]
    /\ PairFixed

\* line 104 false: the generator of this call ends
PlaybackExit(p) ==
    /\ pb[p].pc = "loop"
    /\ ~LoopCondition(pb[p].current_time, pb[p].max_time)
    /\ pb' = [pb EXCEPT ![p].pc = "finished"]
    /\ PairFixed

\* the client of a failed or cancelled playback asks again: a new call, and
\* nothing is handed over to it but what the call itself sets up
NewRequest(p) ==
    /\ pb[p].pc = "failed"
    /\ pb[p].runs + 1 < MaxRequests
    /\ pb' = [pb EXCEPT ![p].pc = "idle", ![p].runs = @ + 1, ![p].out = <<>>]
    /\ PairFixed

NextPair ==
    \/ \E p \in Playbacks : StartPlayback(p)
    \/ \E p \in Playbacks : ScanAndSend(p)
    \/ \E p \in Playbacks : PlaybackExit(p)
    \/ \E p \in Playbacks : NewRequest(p)

SpecPair == InitPair /\ [][NextPair]_vars

\* ---------------------------------------------------------------- driver filter
\* generate_replay_frames called directly with a driver_ids argument: None, or
\* a list of at most MaxFilter driver ids
MaxFilter == 2

Filters == {NoFilter} \cup { [none |-> FALSE, ids |-> l] : l \in SeqsUpTo(DriverIds, MaxFilter) }

InitFilter ==
    /\ store \in { s \in SeqsUpTo(PairRows, MaxPairSamples) : IsOrdered(s) }
    /\ fps \in FpsValues
    /\ connected = TRUE
    /\ pc = "idle"
    /\ exc = "none"
    /\ wire = <<>>
    /\ InitSeq /\ InitHist
    /\ db = NewDb /\ ing = NewIngestion
    /\ \E f \in Filters :
          pb = [p \in Playbacks |-> IF p = 1 THEN [NewPlayback EXCEPT !.driver_ids = f]
                                   ELSE NewPlayback]
    /\ asm_time = 0 /\ asm_frames = <<>> /\ asm_results = <<>>

NextFilter ==
    \/ StartPlayback(1)
    \/ ScanAndSend(1)
    \/ PlaybackExit(1)
    \/ NewRequest(1)

SpecFilter == InitFilter /\ [][NextFilter]_vars

\* ---------------------------------------------------------------- get_db
\* the session dependency: one session per request, opened before the
\* handler runs and finished after it; requests are served one after another
MaxDbRequests == 2
MaxWrites == 2

InitDb ==
    /\ store = <<>>
    /\ fps = 10
    /\ connected = TRUE
    /\ pc = "idle"
    /\ exc = "none"
    /\ wire = <<>>
    /\ InitSeq /\ InitHist
    /\ db = NewDb /\ ing = NewIngestion
    /\ pb = [p \in Playbacks |-> NewPlayback]
    /\ asm_time = 0 /\ asm_frames = <<>> /\ asm_results = <<>>

DbFixed ==
    UNCHANGED <<store, fps, connected, pc, exc, wire, seqVars, histVars, asmVars, pb, ing,
                in_flight>>

\* line 40-42: db = SessionLocal(); yield db
OpenSession ==
    /\ db.pc = "idle"
    /\ Len(db.served) < MaxDbRequests
    /\ db' = [db EXCEPT !.pc = "yielded", !.pending = 0, !.handler = "none",
                        !.exc = "none", !.ops = <<>>]
    /\ DbFixed

\* the handler adds a row to the session
HandlerWrite ==
    /\ db.pc = "yielded"
    /\ db.pending < MaxWrites
    /\ db' = [db EXCEPT !.pending = @ + 1]
    /\ DbFixed

\* the handler returns: the generator resumes after the yield
HandlerReturns ==
    /\ db.pc = "yielded"
    /\ db' = [db EXCEPT !.pc = "commit", !.handler = "returned"]
    /\ DbFixed

HandlerRaises_then_commit ==
    /\ db.pc = "yielded"
    /\ db' = [db EXCEPT !.pc = "commit", !.handler = "raised", !.exc = "HandlerError"]
    /\ DbFixed

\* the handler raises: the exception is thrown into the generator at the yield
\* and caught by except Exception (line 44)
HandlerRaises ==
    /\ db.pc = "yielded"
    /\ db' = [db EXCEPT !.pc = "except", !.handler = "raised", !.exc = "HandlerError"]
    /\ DbFixed

\* line 43: db.commit(), which persists the pending rows or raises
Commit ==
    /\ db.pc = "commit"
    /\ \/ db' = [db EXCEPT !.pc = "finally", !.ops = Append(@, "commit"),
                           !.persisted = @ + db.pending, !.pending = 0]
       \/ db' = [db EXCEPT !.pc = "except", !.ops = Append(@, "commit"),
                           !.exc = "CommitError"]
    /\ DbFixed

\* lines 45-46: db.rollback(); raise
Rollback ==
    /\ db.pc = "except"
    /\ db' = [db EXCEPT !.pc = "finally", !.ops = Append(@, "rollback"), !.pending = 0]
    /\ DbFixed

\* line 48: db.close(); the request is over, with db.exc leaving get_db
CloseSession ==
    /\ db.pc = "finally"
    /\ db' = [db EXCEPT !.pc = "idle", !.ops = Append(@, "close"),
                        !.served = Append(@, [handler |-> db.handler, raised |-> db.exc,
                                              ops |-> Append(db.ops, "close"),
                                              persisted |-> db.persisted])]
    /\ DbFixed

NextDb ==
    \/ OpenSession
    \/ HandlerWrite
    \/ HandlerReturns
    \/ HandlerRaises
    \/ Commit
    \/ Rollback
    \/ CloseSession

SpecDb == InitDb /\ [][NextDb]_vars

\* ---------------------------------------------------------------- ingest_race_data
\* metadata, results, laps, stints, telemetry, track shape
NumSteps == 6

InitIngest ==
    /\ store = <<>>
    /\ fps = 10
    /\ connected = TRUE
    /\ pc = "idle"
    /\ exc = "none"
    /\ wire = <<>>
    /\ InitSeq /\ InitHist
    /\ db = NewDb /\ ing = NewIngestion
    /\ pb = [p \in Playbacks |-> NewPlayback]
    /\ asm_time = 0 /\ asm_frames = <<>> /\ asm_results = <<>>

IngestFixed ==
    UNCHANGED <<store, fps, connected, pc, exc, wire, seqVars, histVars, asmVars, pb, db,
                in_flight>>

\* lines 554-563: the FastF1 session loads, or the function logs and returns
\* before any database session exists; then db = SessionLocal()
LoadSession ==
    /\ ing.pc = "load"
    /\ \/ ing' = [ing EXCEPT !.pc = "step", !.step = 1]
       \/ ing' = [ing EXCEPT !.pc = "done"]
    /\ IngestFixed

\* the call of step ing.step (lines 569, 574, 579, 584, 589, 594): it may add
\* rows to the session, and it returns or raises
RunStep ==
    /\ ing.pc = "step"
    /\ \E writes \in BOOLEAN :
          LET added == IF writes THEN {ing.step} ELSE {}
          IN  \/ ing' = [ing EXCEPT !.pc = "commit", !.ran = Append(@, ing.step),
                                    !.pending = @ \cup added, !.wrote = @ \cup added]
              \/ ing' = [ing EXCEPT !.pc = "except", !.ran = Append(@, ing.step),
                                    !.pending = @ \cup added, !.wrote = @ \cup added,
                                    !.exc = "StepError", !.failed_at = ing.step]
    /\ IngestFixed

CommitStep_at_end ==
    /\ ing.pc = "commit"
    /\ \/ /\ ing.step < NumSteps
          /\ ing' = [ing EXCEPT !.pc = "step", !.step = @ + 1, !.ops = Append(@, "commit")]
       \/ /\ ing.step = NumSteps
          /\ ing' = [ing EXCEPT !.pc = "finally", !.ops = Append(@, "commit"),
                                !.persisted = @ \cup ing.pending, !.pending = {}]
       \/ ing' = [ing EXCEPT !.pc = "except", !.ops = Append(@, "commit"),
                             !.exc = "CommitError", !.failed_at = ing.step]
    /\ IngestFixed

\* the db.commit() after the step (lines 570, 575, 580, 585, 590, 595)
CommitStep ==
    /\ ing.pc = "commit"
    /\ \/ ing' = [ing EXCEPT !.pc = IF ing.step = NumSteps THEN "finally" ELSE "step",
                             !.step = IF ing.step = NumSteps THEN @ ELSE @ + 1,
                             !.ops = Append(@, "commit"),
                             !.persisted = @ \cup ing.pending, !.pending = {}]
       \/ ing' = [ing EXCEPT !.pc = "except", !.ops = Append(@, "commit"),
                             !.exc = "CommitError", !.failed_at = ing.step]
    /\ IngestFixed

\* lines 600-603: log, db.rollback(), raise
IngestExcept ==
    /\ ing.pc = "except"
    /\ ing' = [ing EXCEPT !.pc = "finally", !.ops = Append(@, "rollback"), !.pending = {}]
    /\ IngestFixed

\* lines 604-605: db.close(); ing.exc leaves the function
IngestClose ==
    /\ ing.pc = "finally"
    /\ ing' = [ing EXCEPT !.pc = "done", !.ops = Append(@, "close")]
    /\ IngestFixed

NextIngest ==
    \/ LoadSession
    \/ RunStep
    \/ CommitStep
    \/ IngestExcept
    \/ IngestClose

SpecIngest == InitIngest /\ [][NextIngest]_vars

\* ---------------------------------------------------------------- properties
Frames == FramesOn(wire)

\* the positions collected by the scans so far, with repetition
TimesCollected(i) ==
    Cardinality({ <<w, j>> \in (1..Len(windows)) \X (1..Len(telemetry_frames)) :
                    j <= Len(windows[w].collected) /\ windows[w].collected[j] = i })

\* C1: with fps >= 1 the timestamps of the delivered frames are strictly
\* increasing (so none is delivered twice) and each lies on the grid
\* min_time + k * step, k >= 0.
C1_FrameTimesIncreaseOnGrid ==
    fps >= 1 =>
        /\ \A i \in 1..Len(Frames) : \A j \in 1..Len(Frames) :
               i < j => Frames[i].t < Frames[j].t
        /\ \A i \in 1..Len(Frames) :
               \E k \in 0..Len(windows) : Frames[i].t = min_time + k * time_step

C1_Witness ==
    /\ fps >= 1
    /\ Len(Frames) >= 2
    /\ Frames[2].t > min_time + time_step

\* C2: after a playback with fps >= 1 ran to the end of its loop, every grid
\* window [min_time + k*step, min_time + (k+1)*step) starting at or before
\* max_time that holds a sample has a frame with t = min_time + k*step.
C2_NonEmptyWindowsEmitted ==
    (fps >= 1 /\ loop_exited /\ telemetry_frames # <<>>) =>
        \A k \in 0..Len(windows) :
            LET t == min_time + k * time_step
            IN  (/\ t <= max_time
                 /\ \E i \in 1..Len(telemetry_frames) :
                        /\ telemetry_frames[i].t_rel_sec >= t
                        /\ telemetry_frames[i].t_rel_sec < t + time_step)
                => \E j \in 1..Len(Frames) : Frames[j].t = t

\* C3: every sample collected into the window of the iteration at time t
\* has t <= t_rel_sec < t + step (half-open window).
C3_WindowHalfOpen ==
    \A w \in 1..Len(windows) : \A j \in 1..Len(windows[w].collected) :
        LET sample == telemetry_frames[windows[w].collected[j]]
        IN  /\ windows[w].t <= sample.t_rel_sec
            /\ sample.t_rel_sec < windows[w].t + time_step

\* C4: with fps >= 1 no sample is collected into two windows, every sample
\* the cursor has passed was collected into one, and when the loop has run
\* to its end the cursor has passed every loaded sample.
C4_EachSampleInOneWindow ==
    fps >= 1 =>
        /\ \A i \in 1..Len(telemetry_frames) :
               /\ TimesCollected(i) <= 1
               /\ i <= frame_index => TimesCollected(i) = 1
        /\ (loop_exited /\ telemetry_frames # <<>>) => frame_index = Len(telemetry_frames)

C4_Witness ==
    /\ fps >= 1
    /\ loop_exited
    /\ Len(telemetry_frames) >= 3
    /\ Len(windows) >= 3
    /\ \E w \in 1..Len(windows) : windows[w].collected = <<>>
    /\ \A i \in 1..Len(telemetry_frames) : TimesCollected(i) = 1

\* C5: in a frame built from any input sequence, the entry of a driver
\* carries the values of that driver's last sample in input order, whatever
\* the samples' timestamps.
C5_LastWriteWins ==
    \A r \in 1..Len(asm_results) : \A i \in 1..Len(asm_frames) :
        (/\ \E j \in 1..Len(asm_frames) :
                j # i /\ asm_frames[j].driver_id = asm_frames[i].driver_id
         /\ \A j \in (i + 1)..Len(asm_frames) :
                asm_frames[j].driver_id # asm_frames[i].driver_id)
        => LET cars == asm_results[r].cars
               mine == { c \in 1..Len(cars) :
                           cars[c].driver_code = DriverCode(asm_frames[i].driver_id) }
           IN  /\ mine # {}
               /\ \A c \in mine :
                      /\ cars[c].x = asm_frames[i].x_norm
                      /\ cars[c].y = asm_frames[i].y_norm
                      /\ cars[c].speed_kph = asm_frames[i].speed_kph
                      /\ cars[c].lap = asm_frames[i].lap_number

C5_Witness ==
    /\ asm_results # <<>>
    /\ \E i \in 1..Len(asm_frames) : \E j \in 1..Len(asm_frames) :
          /\ i < j
          /\ asm_frames[i].driver_id = asm_frames[j].driver_id
          /\ asm_frames[i].t_rel_sec > asm_frames[j].t_rel_sec
          /\ asm_frames[i].x_norm # asm_frames[j].x_norm
          /\ \A k \in (j + 1)..Len(asm_frames) :
                 asm_frames[k].driver_id # asm_frames[j].driver_id

HasCar(frame, code, x, y) ==
    \E c \in 1..Len(frame.cars) :
        frame.cars[c].driver_code = code /\ frame.cars[c].x = x /\ frame.cars[c].y = y

ExampleRan == store = ExampleStore /\ fps = 10 /\ pc = "done" /\ exc = "none"

\* C6 as stated: the example session at fps = 10 yields exactly one frame,
\* at t = 0.0, with A -> (0.2, 0.2) and B -> (0.5, 0.5), then the completion.
C6_ExampleFrameAtZero ==
    ExampleRan =>
        /\ Len(Frames) = 1
        /\ Frames[1].t = 0
        /\ HasCar(Frames[1], "A", 2, 2) /\ HasCar(Frames[1], "B", 5, 5)
        /\ Len(wire) = 2 /\ IsFrame(wire[1]) /\ IsComplete(wire[2])

\* C6 amended: the example session at fps = 10 yields exactly one frame,
\* at t = min_time = 0.02, with A -> (0.2, 0.2) and B -> (0.5, 0.5), then
\* the completion.
C6_ExampleFrameAtMinTime ==
    ExampleRan =>
        /\ Len(Frames) = 1
        /\ Frames[1].t = 2
        /\ Len(Frames[1].cars) = 2
        /\ HasCar(Frames[1], "A", 2, 2) /\ HasCar(Frames[1], "B", 5, 5)
        /\ Len(wire) = 2 /\ IsFrame(wire[1]) /\ IsComplete(wire[2])

C6_Witness == ExampleRan /\ Len(wire) = 2

\* C7: a playback with fps <= 0 never issues the telemetry query.
C7_FpsRejectedBeforeQuery == fps <= 0 => store_queries = 0

\* C8: when the read returns zero samples the playback delivers no frame,
\* raises nothing out of the sequencer, and the endpoint attempts the
\* completion message once; when that send succeeds it is the only message.
C8_EmptySessionCompletes ==
    (store = <<>> /\ store_queries = 1 /\ exc # "StoreError") =>
        /\ Frames = <<>> /\ send_attempts = 0
        /\ ~propagated /\ pc # "replay_except"
        /\ exc \in {"none", "SendError", "WebSocketDisconnect"}
        /\ pc = "done" => completion_attempts = 1
        /\ (pc = "done" /\ exc = "none") => (Len(wire) = 1 /\ IsComplete(wire[1]))

C8_Witness ==
    /\ store = <<>> /\ store_queries = 1 /\ pc = "done" /\ fps >= 1
    /\ Len(wire) = 1 /\ IsComplete(wire[1])

\* C9: the completion message is attempted at most once, only after the
\* sequencer returned normally, and nothing follows it on the wire; a
\* playback whose sequencer raised (store failure, sink failure, disconnect)
\* never attempts it; a playback whose sequencer returned attempts it once.
C9_CompletionOnceAfterNormalExit ==
    /\ completion_attempts <= 1
    /\ completion_attempts = 1 => (loop_exited /\ ~propagated /\ sink_failed = NoFailure)
    /\ propagated => completion_attempts = 0
    /\ \A i \in 1..Len(wire) : IsComplete(wire[i]) => (i = Len(wire) /\ completion_attempts = 1)
    /\ (pc \in {"close", "done"} /\ loop_exited) => completion_attempts = 1

C9_Witness ==
    /\ pc = "done"
    /\ Len(wire) >= 3
    /\ IsComplete(wire[Len(wire)])
    /\ \A i \in 1..(Len(wire) - 1) : IsFrame(wire[i])

\* C10: once a frame delivery has raised, no further window is scanned, no
\* further delivery is attempted or made, and the exception leaves
\* replay_session_websocket (it reaches the endpoint's handlers re-raised).
C10_SinkFailureAborts ==
    sink_failed # NoFailure =>
        /\ Len(windows) = sink_failed.at
        /\ Len(Frames) = sink_failed.frames
        /\ send_attempts = sink_failed.frames + 1
        /\ pc \in {"replay_except", "router_except", "close", "done"}
        /\ pc # "replay_except" => propagated
        /\ completion_attempts = 0

C10_Witness ==
    /\ sink_failed # NoFailure
    /\ pc = "done"
    /\ propagated
    /\ frame_index < Len(telemetry_frames)
    /\ Len(Frames) >= 1

\* C11: once the consumer has disconnected, the sequencer scans no further
\* window and makes no further delivery attempt.
C11_DisconnectStopsSequencer ==
    [][~connected => (windows' = windows /\ send_attempts' = send_attempts)]_vars

\* C12: what the client receives is a strictly increasing run of frames
\* followed by at most one terminal message, which is last: the completion
\* (only after the sequencer returned normally; always when nothing raised),
\* or an error message (only after an exception other than a disconnect);
\* a playback ended by WebSocketDisconnect sends neither.
C12_ClientSeesOneOutcome ==
    /\ \A i \in 1..Len(Frames) : \A j \in 1..Len(Frames) :
           i < j => Frames[i].t < Frames[j].t
    /\ \A i \in 1..Len(wire) : ~IsFrame(wire[i]) => i = Len(wire)
    /\ \A i \in 1..Len(wire) : IsComplete(wire[i]) => (loop_exited /\ ~propagated)
    /\ \A i \in 1..Len(wire) :
           IsError(wire[i]) => exc \notin {"none", "WebSocketDisconnect"}
    /\ (pc \in {"close", "done"} /\ exc = "WebSocketDisconnect") =>
           \A i \in 1..Len(wire) : IsFrame(wire[i])
    /\ (pc = "done" /\ exc = "none") =>
           (Len(wire) >= 1 /\ IsComplete(wire[Len(wire)]))

C12_Witness ==
    /\ pc = "done"
    /\ Len(wire) >= 3
    /\ IsError(wire[Len(wire)])
    /\ \A i \in 1..(Len(wire) - 1) : IsFrame(wire[i])

\* C13: every frame the sequencer yields has at least one car: the frames
\* delivered, and the frame whose delivery is under way.
C13_NoEmptyFrame ==
    /\ \A i \in 1..Len(Frames) : Len(Frames[i].cars) >= 1
    /\ \A i \in 1..Len(in_flight) : Len(in_flight[i].cars) >= 1

C13_Witness ==
    /\ Len(Frames) >= 1
    /\ \E w \in 1..Len(windows) : windows[w].collected = <<>>

\* C15: at most one frame delivery is in flight, and while one is, the
\* cursor and current_time do not move and no window is scanned.
C15_DeliverySynchronous ==
    /\ [](Len(in_flight) <= 1)
    /\ [][in_flight # <<>> => (/\ frame_index' = frame_index
                               /\ current_time' = current_time
                               /\ windows' = windows)]_vars

C15_Witness ==
    /\ Len(in_flight) = 1
    /\ Len(windows) >= 2
    /\ frame_index < Len(telemetry_frames)

\* C14 as stated: build_replay_frame called with an empty sample sequence
\* produces no frame.
C14_EmptyInputNoFrame ==
    asm_frames = <<>> => \A r \in 1..Len(asm_results) : ~IsFrame(asm_results[r])

\* C14 amended: build_replay_frame called with an empty sample sequence
\* returns a frame with t = current_time and an empty cars list.
C14_EmptyInputEmptyCars ==
    asm_frames = <<>> =>
        \A r \in 1..Len(asm_results) :
            /\ IsFrame(asm_results[r])
            /\ asm_results[r].t = asm_time
            /\ asm_results[r].cars = <<>>

C14_Witness == asm_frames = <<>> /\ asm_results # <<>> /\ asm_time > 0

\* C17: a playback reads the store once, before any window is scanned or
\* frame delivered; when that read raises, no frame is delivered, the read
\* is not repeated, no completion is attempted and the exception leaves
\* replay_session_websocket.
C17_OneBulkRead ==
    /\ store_queries <= 1
    /\ pc \in {"accept", "lookup", "load"} => store_queries = 0
    /\ pc \in {"loop", "yield", "sending", "advance", "replay_except", "replay_return"}
          => store_queries = 1
    /\ (windows # <<>> \/ Frames # <<>> \/ in_flight # <<>>) => store_queries = 1
    /\ exc = "StoreError" =>
          /\ store_queries = 1
          /\ Frames = <<>> /\ windows = <<>> /\ send_attempts = 0
          /\ completion_attempts = 0
          /\ pc \in {"replay_except", "router_except", "close", "done"}
          /\ pc # "replay_except" => propagated

C17_Witness ==
    /\ exc = "StoreError" /\ pc = "done" /\ store # <<>> /\ fps >= 1
    /\ Len(wire) = 1 /\ IsError(wire[1])

\* the rows in the order the store returned them
Loaded == get_telemetry_frames(store, <<>>)

AtTime(frames, t) == LET At(f) == f.t_rel_sec = t IN SelectSeq(frames, At)

\* C20: the sorted list is ascending in t_rel_sec and keeps rows of equal
\* time in the order the store returned them; so in a delivered frame the
\* entry of a driver carries the values of that driver's collected sample
\* of greatest t_rel_sec, and among several of that time the one the store
\* returned last.
C20_StableSortLatestWins ==
    (store_queries = 1 /\ telemetry_frames # <<>> /\ fps # 0) =>
        /\ \A i \in 1..Len(telemetry_frames) : \A j \in 1..Len(telemetry_frames) :
               i < j => telemetry_frames[i].t_rel_sec <= telemetry_frames[j].t_rel_sec
        /\ \A t \in Times(Loaded) : AtTime(telemetry_frames, t) = AtTime(Loaded, t)
        /\ \A f \in 1..Len(Frames) : \A w \in 1..Len(windows) :
               windows[w].t = Frames[f].t =>
                 \A p \in 1..Len(windows[w].collected) :
                    LET d == telemetry_frames[windows[w].collected[p]].driver_id
                        tmax == MaxOf({ telemetry_frames[windows[w].collected[q]].t_rel_sec :
                                          q \in { q \in 1..Len(windows[w].collected) :
                                                    telemetry_frames[windows[w].collected[q]].driver_id = d } })
                        last == MaxOf({ i \in 1..Len(Loaded) :
                                          Loaded[i].driver_id = d /\ Loaded[i].t_rel_sec = tmax })
                        mine == { c \in 1..Len(Frames[f].cars) :
                                    Frames[f].cars[c].driver_code = DriverCode(d) }
                    IN  /\ mine # {}
                        /\ \A c \in mine :
                               /\ Frames[f].cars[c].x = Loaded[last].x_norm
                               /\ Frames[f].cars[c].y = Loaded[last].y_norm
                               /\ Frames[f].cars[c].speed_kph = Loaded[last].speed_kph
                               /\ Frames[f].cars[c].lap = Loaded[last].lap_number

C20_Witness ==
    /\ Len(Frames) >= 1
    /\ \E i \in 1..Len(telemetry_frames) : \E j \in 1..Len(telemetry_frames) :
          /\ i < j
          /\ telemetry_frames[i].driver_id = telemetry_frames[j].driver_id
          /\ telemetry_frames[i].t_rel_sec = telemetry_frames[j].t_rel_sec
          /\ telemetry_frames[i].x_norm # telemetry_frames[j].x_norm
          /\ telemetry_frames[j].t_rel_sec < Frames[1].t + time_step
          /\ \E k \in 1..Len(telemetry_frames) :
                /\ telemetry_frames[k].driver_id = telemetry_frames[j].driver_id
                /\ telemetry_frames[k].t_rel_sec < telemetry_frames[j].t_rel_sec

\* the number of k >= 0 with min_time + k * step <= max_time
GridWindows == (max_time - min_time) \div time_step + 1

\* C18: with fps >= 1 and a non-empty sample set, when every awaited call
\* returns, the loop runs at most GridWindows iterations, exactly that many
\* when it runs to its end, and the playback reaches its terminal state.
C18_LoopTerminates ==
    /\ []((fps >= 1 /\ telemetry_frames # <<>>) =>
              /\ Len(windows) <= GridWindows
              /\ loop_exited => Len(windows) = GridWindows)
    /\ ((fps >= 1 /\ store # <<>>) ~> (pc = "done"))

C18_Witness ==
    /\ fps >= 1 /\ pc = "done" /\ loop_exited
    /\ Len(windows) >= 4
    /\ Len(Frames) < Len(windows)

\* the frames one playback delivers when it runs alone from the beginning and
\* every send returns
RECURSIVE RunAlone(_, _, _, _, _)
RunAlone(frames, idx, t, step, last) ==
    IF t > last THEN <<>>
    ELSE LET scan == ScanWindow(frames, idx, t, t + step, <<>>)
             window_frames == [i \in 1..Len(scan.collected) |-> frames[scan.collected[i]]]
         IN  (IF window_frames = <<>> THEN <<>>
              ELSE <<build_replay_frame(t, window_frames)>>)
             \o RunAlone(frames, scan.frame_index, t + step, step, last)

AloneFrames ==
    IF store = <<>> \/ fps < 1 THEN <<>>
    ELSE LET frames == SortByTime(store)
         IN  RunAlone(frames, 0, MinOf(Times(frames)), TimeStep(fps), MaxOf(Times(frames)))

IsPrefix(s, t) == Len(s) <= Len(t) /\ \A i \in 1..Len(s) : s[i] = t[i]

\* C16: whatever the interleaving of two playbacks of one session, and after
\* any earlier failed or cancelled playback, the frames a playback has
\* delivered are the beginning of what it delivers alone from the start, and
\* all of it once the playback has finished.
C16_PlaybacksIndependent ==
    \A p \in Playbacks :
        /\ IsPrefix(pb[p].out, AloneFrames)
        /\ pb[p].pc = "finished" => pb[p].out = AloneFrames

\* playback 1 failed after its first frame, was requested again and ran to the
\* end while playback 2 is in the middle of its own run
C16_Witness ==
    /\ pb[1].runs = 1 /\ pb[1].pc = "finished"
    /\ Len(pb[1].out) >= 2
    /\ pb[2].pc = "loop" /\ Len(pb[2].out) = 1
    /\ pb[2].frame_index < pb[1].frame_index

\* the scans that collected something, in order: one per frame handed to the sink
NonEmptyWindows == LET Some(w) == w.collected # <<>> IN SelectSeq(windows, Some)

\* C21: every delivered frame has one car per distinct driver of its window,
\* no driver twice, and each car's x, y, speed and lap are those of one
\* loaded sample of that driver collected into that window.
C21_CarsCopiedFromWindow ==
    /\ Len(Frames) <= Len(NonEmptyWindows)
    /\ \A i \in 1..Len(Frames) :
          LET cars == Frames[i].cars
              collected == NonEmptyWindows[i].collected
              samples == { telemetry_frames[collected[j]] : j \in 1..Len(collected) }
              drivers == { s.driver_id : s \in samples }
          IN  /\ Len(cars) = Cardinality(drivers)
              /\ \A a, b \in 1..Len(cars) : a # b => cars[a].driver_code # cars[b].driver_code
              /\ \A a \in 1..Len(cars) : \E s \in samples :
                    /\ cars[a].driver_code = DriverCode(s.driver_id)
                    /\ cars[a].x = s.x_norm /\ cars[a].y = s.y_norm
                    /\ cars[a].speed_kph = s.speed_kph /\ cars[a].lap = s.lap_number

\* a first frame with one car whose driver was sampled twice in the first
\* window, then a second frame with the other driver alone
C21_Witness ==
    /\ Len(Frames) = 2
    /\ Len(Frames[1].cars) = 1 /\ Len(NonEmptyWindows[1].collected) = 2
    /\ Len(Frames[2].cars) = 1
    /\ Frames[2].cars[1].driver_code # Frames[1].cars[1].driver_code

\* the position at which a driver first occurs in a sample sequence
FirstAt(frames, d) ==
    CHOOSE i \in 1..Len(frames) :
        /\ frames[i].driver_id = d
        /\ \A j \in 1..(i - 1) : frames[j].driver_id # d

\* C22: the cars of a frame built by build_replay_frame are one per distinct
\* driver, in the order in which the drivers first occur in the input; an
\* overwriting sample does not move its driver.
C22_CarsInFirstOccurrenceOrder ==
    \A r \in 1..Len(asm_results) :
        LET cars == asm_results[r].cars
            drivers == { asm_frames[i].driver_id : i \in 1..Len(asm_frames) }
        IN  /\ Len(cars) = Cardinality(drivers)
            /\ \A a, b \in 1..Len(cars) : a < b =>
                  \E d, e \in drivers :
                      /\ cars[a].driver_code = DriverCode(d)
                      /\ cars[b].driver_code = DriverCode(e)
                      /\ FirstAt(asm_frames, d) < FirstAt(asm_frames, e)

\* driver 2, driver 1, then driver 2 again with other values: driver 2 stays first
C22_Witness ==
    /\ Len(asm_frames) = 3 /\ asm_results # <<>>
    /\ asm_frames[1].driver_id = 2 /\ asm_frames[2].driver_id = 1
    /\ asm_frames[3].driver_id = 2 /\ asm_frames[3].x_norm # asm_frames[1].x_norm
    /\ Len(asm_results[1].cars) = 2
    /\ asm_results[1].cars[1].x = asm_frames[3].x_norm

\* C23: called with a driver_ids list, the empty list included, every car of
\* every emitted frame is of a driver in the list; called with None, the
\* frames are those of all drivers of the session.
C23_DriverFilter ==
    LET me == pb[1]
        Listed(code) == \E i \in 1..Len(me.driver_ids.ids) :
                            DriverCode(me.driver_ids.ids[i]) = code
    IN  /\ ~me.driver_ids.none =>
              \A i \in 1..Len(me.out) : \A c \in 1..Len(me.out[i].cars) :
                  Listed(me.out[i].cars[c].driver_code)
        /\ me.driver_ids.none => IsPrefix(me.out, AloneFrames)

\* C24: the cursor stays within 0..number of loaded samples and never
\* decreases; a scan starts at the cursor the scan before it left, and every
\* position it collects lies above that cursor, so no sample below the cursor
\* is read again.
C24_CursorMonotone ==
    /\ [](/\ 0 <= frame_index /\ frame_index <= Len(telemetry_frames)
          /\ \A w \in 1..Len(windows) :
                /\ \A j \in 1..Len(windows[w].collected) :
                      windows[w].collected[j] > windows[w].from
                /\ w > 1 => /\ windows[w].from >= windows[w - 1].from
                            /\ \A j \in 1..Len(windows[w - 1].collected) :
                                  windows[w - 1].collected[j] <= windows[w].from)
    /\ [][frame_index' >= frame_index]_vars

\* the third scan starts past two samples that two earlier scans consumed
C24_Witness ==
    /\ Len(windows) >= 3
    /\ windows[2].from = 1 /\ windows[3].from = 2
    /\ frame_index = 3

\* the scan just made belongs to an iteration that has not reached its sleep
InIteration == pc \in {"yield", "sending", "advance"}

\* C25: every iteration that runs to its end suspends once, after advancing
\* current_time, whether or not its window was empty; the suspension comes
\* only after the delivery of that iteration has returned, and two frame
\* deliveries are never made without a suspension between them.
C25_OneSleepPerIteration ==
    /\ InIteration => sleeps = Len(windows) - 1
    /\ pc = "loop" => sleeps = Len(windows)
    /\ loop_exited => sleeps = Len(windows)
    /\ sink_failed # NoFailure => sleeps = Len(windows) - 1
    /\ windows # <<>> => current_time = min_time + sleeps * time_step
    /\ send_attempts <= sleeps + 1
    /\ in_flight # <<>> => sleeps = Len(windows) - 1

\* three iterations have slept, the second of them on an empty window
C25_Witness ==
    /\ pc = "loop" /\ sleeps = 3
    /\ windows[2].collected = <<>>
    /\ Len(Frames) = 2

\* C26: with at least one sample and fps >= 1 the first scan collects every
\* sample at min_time, so a frame is emitted; the first frame has
\* t = min_time, and every frame has min_time <= t <= max_time.
C26_FirstFrameAtMinTime ==
    (fps >= 1 /\ telemetry_frames # <<>>) =>
        /\ windows # <<>> =>
              /\ windows[1].t = min_time
              /\ \A i \in 1..Len(telemetry_frames) :
                    telemetry_frames[i].t_rel_sec = min_time =>
                        \E j \in 1..Len(windows[1].collected) : windows[1].collected[j] = i
        /\ (windows # <<>> /\ (Len(windows) > 1 \/ pc # "yield")) => send_attempts >= 1
        /\ loop_exited => Frames # <<>>
        /\ Frames # <<>> => Frames[1].t = min_time
        /\ \A i \in 1..Len(Frames) : min_time <= Frames[i].t /\ Frames[i].t <= max_time

\* both drivers sampled at min_time > 0 and one later sample: two frames, the
\* first with both cars
C26_Witness ==
    /\ fps >= 1 /\ pc = "done" /\ loop_exited
    /\ min_time > 0 /\ max_time > min_time
    /\ Len(Frames) = 2
    /\ Len(Frames[1].cars) = 2
    /\ Frames[2].t > min_time

\* C27: with fps < 0 and a loaded, non-empty sample list the step is
\* negative, every window is empty, no frame is emitted, current_time only
\* decreases and stays <= max_time, the loop is never left, and neither an
\* error nor a completion message is produced.
C27_NegativeFpsNeverEnds ==
    /\ []((fps < 0 /\ telemetry_frames # <<>>) =>
              /\ time_step < 0
              /\ \A w \in 1..Len(windows) : windows[w].collected = <<>>
              /\ send_attempts = 0 /\ wire = <<>>
              /\ current_time <= min_time /\ current_time <= max_time
              /\ ~loop_exited /\ exc = "none" /\ completion_attempts = 0
              /\ pc \in {"loop", "yield", "advance"})
    /\ [][(fps < 0 /\ telemetry_frames # <<>>) => current_time' <= current_time]_vars
    /\ ((fps < 0 /\ telemetry_frames # <<>>) ~> (current_time < min_time - MaxBack))

\* the loop has gone MaxBack steps below min_time and is still running
C27_Witness ==
    /\ fps < 0 /\ telemetry_frames # <<>>
    /\ pc = "advance" /\ Len(windows) > MaxBack
    /\ current_time = min_time - MaxBack

\* C28: the endpoint ends only through its close: the close is attempted
\* exactly once, nothing is sent after it, and every path on which the replay
\* returned or anything raised (lookup, read, 1/fps, delivery, disconnect,
\* completion send) reaches it, whatever the error send and the close do.
C28_CloseOnceAndLast ==
    /\ [](/\ close_attempts <= 1
          /\ (pc = "done") <=> (close_attempts = 1))
    /\ [][close_attempts = 1 =>
              /\ wire' = wire /\ in_flight' = in_flight
              /\ send_attempts' = send_attempts
              /\ completion_attempts' = completion_attempts
              /\ close_attempts' = close_attempts]_vars
    /\ ((exc # "none" \/ loop_exited) ~> (pc = "done"))

\* closed after a failed delivery to a client that had gone: no error message
\* could be sent either
C28_Witness ==
    /\ pc = "done" /\ close_attempts = 1
    /\ sink_failed # NoFailure /\ ~connected
    /\ exc = "WebSocketDisconnect"
    /\ Len(Frames) >= 1

\* what was persisted before request r began
PersistedBefore(r) == IF r = 1 THEN 0 ELSE db.served[r - 1].persisted

\* C29: a request's session is committed only when the handler returned; when
\* the handler or the commit raised, it is rolled back, nothing of the
\* request is persisted and that exception leaves get_db; the session is
\* closed exactly once, as the last call, and not before the request is over.
C29_SessionLifecycle ==
    /\ \A i \in 1..Len(db.ops) : db.pc # "idle" => db.ops[i] # "close"
    /\ \A r \in 1..Len(db.served) :
          LET req == db.served[r]
          IN  /\ req.handler = "raised" =>
                    /\ req.ops = <<"rollback", "close">>
                    /\ req.raised = "HandlerError"
                    /\ req.persisted = PersistedBefore(r)
              /\ req.handler = "returned" =>
                    \/ /\ req.ops = <<"commit", "close">>
                       /\ req.raised = "none"
                    \/ /\ req.ops = <<"commit", "rollback", "close">>
                       /\ req.raised = "CommitError"
                       /\ req.persisted = PersistedBefore(r)
              /\ req.handler \in {"raised", "returned"}

\* a request whose commit raised after writes, then one whose handler raised,
\* with the rows of neither persisted
C29_Witness ==
    /\ Len(db.served) = 2
    /\ db.served[1].raised = "CommitError"
    /\ db.served[2].raised = "HandlerError"
    /\ db.persisted = 0

Commits(n) == [i \in 1..n |-> "commit"]

\* C30: the steps run in the order 1..6, each followed by a commit; when step
\* k or its commit raises, the rows of step k are rolled back, the rows of the
\* steps before k stay persisted, no later step runs and the error leaves the
\* function; the session, once opened, is closed on every path, last.
C30_IngestionSteps ==
    /\ ing.ran = [i \in 1..Len(ing.ran) |-> i] /\ Len(ing.ran) <= NumSteps
    /\ ing.pc # "done" => \A i \in 1..Len(ing.ops) : ing.ops[i] # "close"
    /\ ing.pc = "step" =>
          /\ ing.ops = Commits(ing.step - 1) /\ Len(ing.ran) = ing.step - 1
          /\ ing.pending = {} /\ ing.persisted = ing.wrote
    /\ (ing.pc = "done" /\ ing.step > 0) =>
          IF ing.exc = "none"
          THEN /\ Len(ing.ran) = NumSteps
               /\ ing.ops = Commits(NumSteps) \o <<"close">>
               /\ ing.persisted = ing.wrote
          ELSE /\ ing.failed_at = Len(ing.ran)
               /\ ing.persisted = { k \in ing.wrote : k < ing.failed_at }
               /\ ing.pending = {}
               /\ ing.ops = Commits(IF ing.exc = "CommitError" THEN ing.failed_at
                                    ELSE ing.failed_at - 1) \o <<"rollback", "close">>

\* step 4 raised after adding rows: the rows of steps 1 to 3 are persisted,
\* those of step 4 are not, steps 5 and 6 never ran
C30_Witness ==
    /\ ing.pc = "done" /\ ing.exc = "StepError" /\ ing.failed_at = 4
    /\ ing.wrote = {1, 2, 3, 4} /\ ing.persisted = {1, 2, 3}
    /\ ing.ran = <<1, 2, 3, 4>>

====
